---- MODULE Spec2Model ----
(***************************************************************************)
(* A model of the cache-through query layer of performance-datatable:      *)
(*   backend/app/services/cache.py            CacheService                 *)
(*   backend/app/services/product_service.py  ProductService               *)
(*   backend/app/config.py                    the per-shape TTLs           *)
(* Python values are tagged records, an exception is a result with         *)
(* raised = TRUE, and the md5 digest is kept symbolic (collision-free).    *)
(***************************************************************************)
EXTENDS Integers, Sequences, FiniteSets, TLC

VARIABLES
    redis,      \* CacheService.redis: "none" before connect(), "client" after
    cache,      \* the Redis keyspace: key -> entry (payload, expiry)
    now,        \* wall clock, in seconds
    store,      \* the products table: id -> row, or Absent
    req,        \* the requests in flight: worker -> frame of the coroutine
    last,       \* the request that returned last, with its history
    budget,     \* requests that may still start
    writes,     \* external store writes so far
    ticks,      \* clock advances so far
    expired,    \* history: the keys whose entry ran out of ttl and that were
                \* neither fetched nor written since
    kp1, kp2,   \* key derivation: two parameter mappings, as item sequences
    kout,       \* key derivation: the two derived keys, or NotRun
    la, lb,     \* list query: two argument sets of get_products
    lout,       \* list query: their keys and store queries, or NotRun
    lres,       \* a query run on its own over the table: its result, or NotRun
    cs          \* CacheService called directly: the last call and its result

vars == <<redis, cache, now, store, req, last, budget, writes, ticks, expired,
          kp1, kp2, kout, la, lb, lout, lres, cs>>

sysvars == <<redis, cache, now, store, req, last, budget, writes, ticks, expired>>
csvars == <<cs>>
keyvars == <<kp1, kp2, kout>>
listvars == <<la, lb, lout, lres>>

----------------------------------------------------------------------------
(* Python values *)

PyNone == [t |-> "none"]
PyStr(s) == [t |-> "str", s |-> s]
PyInt(n) == [t |-> "int", n |-> n]
\* A float with a whole value, n.0 (the endpoint parses prices as float).
PyFloat(n) == [t |-> "float", n |-> n]

\* bool(v) for the values the service tests with `if v:`.
Truthy(v) ==
    CASE v.t = "none" -> FALSE
      [] v.t = "str" -> v.s # ""
      [] v.t = "int" -> v.n # 0
      [] v.t = "float" -> v.n # 0
      [] OTHER -> TRUE

NotRun == [t |-> "notrun"]

----------------------------------------------------------------------------
(* CacheService._generate_key *)

\* The parameter names get_products uses.
KeyNames ==
    {"brand", "category", "limit", "max_price", "min_price", "page",
     "search", "sort_by", "sort_order"}

\* The strings the model orders, in Python's str order (by code point).
StrOrder ==
    <<"A tech atlas", "Acme", "Atlas", "Books", "Home", "SKU-1", "SKU-2",
      "SKU-3",
      "Tech Lamp", "Zenith",
      "brand", "category", "limit", "max_price", "min_price", "page",
      "search", "sort_by", "sort_order">>

StrRank(x) == CHOOSE i \in 1..Len(StrOrder) : StrOrder[i] = x

\* a < b on str.
StrLess(a, b) == StrRank(a) < StrRank(b)

RECURSIVE InsertItem(_, _)
InsertItem(item, s) ==
    IF s = <<>> THEN <<item>>
    ELSE IF StrLess(item[1], Head(s)[1]) THEN <<item>> \o s
    ELSE <<Head(s)>> \o InsertItem(item, Tail(s))

RECURSIVE SortItems(_)
SortItems(s) ==
    IF s = <<>> THEN <<>> ELSE InsertItem(Head(s), SortItems(Tail(s)))

UnsortedItems(items) == items

\* sorted(params.items()): the items ordered by name (names are unique).
SortedItems(items) == SortItems(items)

JsonValueNoneAsEmpty(v) ==
    CASE v.t = "none" -> "\"\""
      [] v.t = "str" -> "\"" \o v.s \o "\""
      [] v.t = "int" -> ToString(v.n)
      [] v.t = "float" -> IF v.n = 0 THEN "\"\"" ELSE ToString(v.n) \o ".0"

\* json.dumps of a scalar: None is null, a str is quoted, a float keeps ".0".
JsonValue(v) ==
    CASE v.t = "none" -> "null"
      [] v.t = "str" -> "\"" \o v.s \o "\""
      [] v.t = "int" -> ToString(v.n)
      [] v.t = "float" -> ToString(v.n) \o ".0"

RECURSIVE JsonItems(_)
JsonItems(s) ==
    IF s = <<>> THEN ""
    ELSE "[\"" \o Head(s)[1] \o "\", " \o JsonValue(Head(s)[2]) \o "]"
         \o (IF Tail(s) = <<>> THEN "" ELSE ", " \o JsonItems(Tail(s)))

\* json.dumps of the list of (name, value) tuples.
JsonDumpsItems(s) == "[" \o JsonItems(s) \o "]"

\* hashlib.md5(...).hexdigest(), symbolic: equal inputs give equal digests
\* and the digest is taken as collision-free.
Md5Hex(s) == "md5(" \o s \o ")"

GenerateKey(prefix, items) ==
    prefix \o ":" \o Md5Hex(JsonDumpsItems(SortedItems(items)))

----------------------------------------------------------------------------
(* ProductService.get_products: cache key and store query *)

\* cache_params, in the insertion order of the dict literal.
CacheParams(a) ==
    << <<"page", PyInt(a.page)>>, <<"limit", PyInt(a.limit)>>,
       <<"sort_by", PyStr(a.sort_by)>>, <<"sort_order", PyStr(a.sort_order)>>,
       <<"category", a.category>>, <<"brand", a.brand>>,
       <<"min_price", a.min_price>>, <<"max_price", a.max_price>>,
       <<"search", a.search>> >>

ListKey(a) == GenerateKey("products:list", CacheParams(a))

\* The mapped columns of the Product model.
ProductColumns ==
    {"id", "sku", "name", "description", "category", "brand", "price",
     "stock_quantity", "rating", "reviews_count", "created_at", "updated_at"}

\* Attributes of the Product class that are no columns: they have no
\* .asc() / .desc().
ProductOtherAttrs == {"__tablename__", "__table_args__", "metadata"}

\* The sort fields the specification enumerates.
SortAllowList == {"id", "name", "price", "rating", "created_at"}

\* getattr(Product, sort_by, Product.id), then .asc() / .desc() on it.
SortColumn(sort_by) ==
    IF sort_by \in ProductColumns THEN [raised |-> FALSE, col |-> sort_by]
    ELSE IF sort_by \in ProductOtherAttrs THEN [raised |-> TRUE, col |-> sort_by]
    ELSE [raised |-> FALSE, col |-> "id"]

\* str.lower() on the sort orders the model passes.
Lower(s) ==
    CASE s = "DESC" -> "desc"
      [] s = "ASC" -> "asc"
      [] OTHER -> s

NoPred == [t |-> "nopred"]

WhereTruthyPrices(a) ==
    [category |-> IF Truthy(a.category) THEN a.category ELSE NoPred,
     brand |-> IF Truthy(a.brand) THEN a.brand ELSE NoPred,
     min_price |-> IF Truthy(a.min_price) THEN a.min_price ELSE NoPred,
     max_price |-> IF Truthy(a.max_price) THEN a.max_price ELSE NoPred,
     search |-> IF Truthy(a.search) THEN a.search ELSE NoPred]

\* The predicates the `if` chain adds to the query.
Where(a) ==
    [category |-> IF Truthy(a.category) THEN a.category ELSE NoPred,
     brand |-> IF Truthy(a.brand) THEN a.brand ELSE NoPred,
     min_price |-> IF a.min_price # PyNone THEN a.min_price ELSE NoPred,
     max_price |-> IF a.max_price # PyNone THEN a.max_price ELSE NoPred,
     search |-> IF Truthy(a.search) THEN a.search ELSE NoPred]

\* The item query: the predicates, order_by, offset and limit.
ItemQuery(a) ==
    [where |-> Where(a),
     order |-> SortColumn(a.sort_by),
     desc |-> Lower(a.sort_order) = "desc",
     offset |-> (a.page - 1) * a.limit,
     limit |-> a.limit]

----------------------------------------------------------------------------
(* The products table and the response schemas *)

Ids == {1, 2}
Absent == [t |-> "absent"]

\* The columns an external writer does not change in the model.
Seed(id) ==
    [id |-> id,
     sku |-> CASE id = 1 -> "SKU-1" [] id = 2 -> "SKU-2" [] OTHER -> "SKU-3",
     name |-> CASE id = 1 -> "Tech Lamp" [] id = 2 -> "Atlas"
                [] OTHER -> "Zenith",
     description |-> IF id = 2 THEN PyStr("A tech atlas") ELSE PyNone,
     category |-> IF id = 2 THEN "Books" ELSE "Home",
     brand |-> IF id = 3 THEN "Zenith" ELSE "Acme",
     price |-> IF id = 2 THEN 995 ELSE 1000,
     stock_quantity |-> IF id = 2 THEN 7 ELSE 0,
     rating |-> IF id = 2 THEN 300 ELSE 450,
     reviews_count |-> id,
     created_at |-> 0,
     updated_at |-> 0]

\* Prices are Numeric(10, 2), kept in cents; ratings Numeric(3, 2), in
\* hundredths.
Prices == {1000, 1005}

Pad2(n) == IF n < 10 THEN "0" \o ToString(n) ELSE ToString(n)

DecStrUnpadded(c) == ToString(c \div 100) \o "." \o ToString(c % 100)

\* str(Decimal) of a two-place decimal: "10.05".
DecStr(c) == ToString(c \div 100) \o "." \o Pad2(c % 100)

\* datetime.isoformat().
IsoStr(d) == "2024-01-01T00:00:" \o Pad2(d)

Invalid == [t |-> "invalid"]

\* Decimal(text): the decimal texts of the model with the value each one
\* denotes, in hundredths.  "10.5" is ten and a half.
DecimalTexts ==
    {<<"0.00", 0>>, <<"0.0", 0>>, <<"3.00", 300>>, <<"3.0", 300>>,
     <<"3.75", 375>>, <<"4.50", 450>>, <<"4.5", 450>>, <<"9.95", 995>>,
     <<"10.00", 1000>>, <<"10.0", 1000>>, <<"10.05", 1005>>,
     <<"10.5", 1050>>}

\* datetime.fromisoformat(text), in seconds after the model's epoch.
DatetimeTexts == {<<"2024-01-01T00:00:00", 0>>}

\* Whether Pydantic reads the JSON value as a Decimal / as a datetime.
IsDecimal(v) ==
    \/ v.t = "str" /\ \E p \in DecimalTexts : p[1] = v.s
    \/ v.t = "int"

IsDatetime(v) == v.t = "str" /\ \E p \in DatetimeTexts : p[1] = v.s

\* The Decimal (in hundredths) and the datetime Pydantic reads.
DecimalOf(v) ==
    IF v.t = "int" THEN v.n * 100
    ELSE (CHOOSE p \in DecimalTexts : p[1] = v.s)[2]

DatetimeOf(v) == (CHOOSE p \in DatetimeTexts : p[1] = v.s)[2]

\* JSON objects: dict and list are tagged, scalars are Python values.
JDict(fields) == [t |-> "dict", v |-> fields]
JList(items) == [t |-> "list", v |-> items]

----------------------------------------------------------------------------
(* Schemas: model_validate, model_dump in JSON mode, and Model from a dict *)

Ok(v) == [raised |-> FALSE, val |-> v]
Raise(e) == [raised |-> TRUE, val |-> [t |-> "error", e |-> e]]

\* schemas.Product, read from an ORM row (from_attributes).
ProductOf(row) ==
    [sku |-> row.sku, name |-> row.name, description |-> row.description,
     category |-> row.category, brand |-> row.brand, price |-> row.price,
     stock_quantity |-> row.stock_quantity, rating |-> row.rating,
     reviews_count |-> row.reviews_count, id |-> row.id,
     created_at |-> row.created_at]

\* ProductDetail.model_validate(product).
DetailOf(row) ==
    [sku |-> row.sku, name |-> row.name, description |-> row.description,
     category |-> row.category, brand |-> row.brand, price |-> row.price,
     stock_quantity |-> row.stock_quantity, rating |-> row.rating,
     reviews_count |-> row.reviews_count, id |-> row.id,
     created_at |-> row.created_at, updated_at |-> row.updated_at]

\* The ProductBase fields, id and created_at in JSON mode: Decimal and
\* datetime become strings.
DumpBase(m) ==
    [sku |-> PyStr(m.sku), name |-> PyStr(m.name),
     description |-> m.description,
     category |-> PyStr(m.category), brand |-> PyStr(m.brand),
     price |-> PyStr(DecStr(m.price)),
     stock_quantity |-> PyInt(m.stock_quantity),
     rating |-> PyStr(DecStr(m.rating)),
     reviews_count |-> PyInt(m.reviews_count), id |-> PyInt(m.id),
     created_at |-> PyStr(IsoStr(m.created_at))]

DumpProduct(m) == JDict(DumpBase(m))

DumpDetail(m) ==
    JDict(DumpBase(m) @@ [updated_at |-> PyStr(IsoStr(m.updated_at))])

BaseFields ==
    {"sku", "name", "category", "brand", "price", "stock_quantity",
     "rating", "reviews_count", "id", "created_at"}

\* Whether the fields of a JSON dict validate as ProductBase + id +
\* created_at (description is optional).
BaseValid(f) ==
    /\ BaseFields \subseteq DOMAIN f
    /\ \A k \in {"sku", "name", "category", "brand"} : f[k].t = "str"
    /\ \A k \in {"stock_quantity", "reviews_count", "id"} : f[k].t = "int"
    /\ IsDecimal(f.price)
    /\ IsDecimal(f.rating)
    /\ IsDatetime(f.created_at)
    /\ "description" \in DOMAIN f => f.description.t \in {"none", "str"}

BaseOf(f) ==
    [sku |-> f.sku.s, name |-> f.name.s,
     description |-> IF "description" \in DOMAIN f THEN f.description
                     ELSE PyNone,
     category |-> f.category.s, brand |-> f.brand.s,
     price |-> DecimalOf(f.price),
     stock_quantity |-> f.stock_quantity.n, rating |-> DecimalOf(f.rating),
     reviews_count |-> f.reviews_count.n, id |-> f.id.n,
     created_at |-> DatetimeOf(f.created_at)]

\* schemas.Product from a cached dict: TypeError unless d is a mapping, ValidationError
\* unless the fields validate.
ParseProduct(obj) ==
    IF obj.t # "dict" THEN Raise("TypeError")
    ELSE IF ~BaseValid(obj.v) THEN Raise("ValidationError")
    ELSE Ok(BaseOf(obj.v))

\* ProductDetail from the cached dict.
ParseDetail(obj) ==
    IF obj.t # "dict" THEN Raise("TypeError")
    ELSE IF ~(BaseValid(obj.v) /\ "updated_at" \in DOMAIN obj.v
              /\ IsDatetime(obj.v.updated_at))
    THEN Raise("ValidationError")
    ELSE Ok(BaseOf(obj.v)
            @@ [updated_at |-> DatetimeOf(obj.v.updated_at)])

DumpListTotalAsPages(m) ==
    JDict([data |-> JList([i \in 1..Len(m.data) |-> DumpProduct(m.data[i])]),
           total |-> PyInt(m.total), page |-> PyInt(m.page),
           limit |-> PyInt(m.limit), pages |-> PyInt(m.total + 1)])

\* ProductList, dumped and read back.
DumpList(m) ==
    JDict([data |-> JList([i \in 1..Len(m.data) |-> DumpProduct(m.data[i])]),
           total |-> PyInt(m.total), page |-> PyInt(m.page),
           limit |-> PyInt(m.limit), pages |-> PyInt(m.pages)])

\* ProductList from the cached dict.
ParseList(obj) ==
    IF obj.t # "dict" THEN Raise("TypeError")
    ELSE IF ~(/\ {"data", "total", "page", "limit", "pages"}
                     \subseteq DOMAIN obj.v
              /\ obj.v.data.t = "list"
              /\ \A i \in 1..Len(obj.v.data.v) :
                     ~ParseProduct(obj.v.data.v[i]).raised
              /\ \A k \in {"total", "page", "limit", "pages"} :
                     obj.v[k].t = "int")
    THEN Raise("ValidationError")
    ELSE Ok([data |-> [i \in 1..Len(obj.v.data.v) |->
                           ParseProduct(obj.v.data.v[i]).val],
             total |-> obj.v.total.n, page |-> obj.v.page.n,
             limit |-> obj.v.limit.n, pages |-> obj.v.pages.n])

\* ProductStats, dumped and read back.
DumpStats(m) ==
    JDict([total_products |-> PyInt(m.total_products),
           total_categories |-> PyInt(m.total_categories),
           total_brands |-> PyInt(m.total_brands),
           price_min |-> PyStr(DecStr(m.price_min)),
           price_max |-> PyStr(DecStr(m.price_max)),
           avg_rating |-> PyStr(DecStr(m.avg_rating)),
           total_stock |-> PyInt(m.total_stock)])

\* ProductStats from the cached dict.
ParseStats(obj) ==
    IF obj.t # "dict" THEN Raise("TypeError")
    ELSE IF ~(/\ {"total_products", "total_categories", "total_brands",
                  "price_min", "price_max", "avg_rating", "total_stock"}
                     \subseteq DOMAIN obj.v
              /\ \A k \in {"total_products", "total_categories",
                           "total_brands", "total_stock"} : obj.v[k].t = "int"
              /\ \A k \in {"price_min", "price_max", "avg_rating"} :
                     IsDecimal(obj.v[k]))
    THEN Raise("ValidationError")
    ELSE Ok([total_products |-> obj.v.total_products.n,
             total_categories |-> obj.v.total_categories.n,
             total_brands |-> obj.v.total_brands.n,
             price_min |-> DecimalOf(obj.v.price_min),
             price_max |-> DecimalOf(obj.v.price_max),
             avg_rating |-> DecimalOf(obj.v.avg_rating),
             total_stock |-> obj.v.total_stock.n])

\* CategoryList, dumped and read back.
DumpCategories(m) ==
    JDict([categories |->
               JList([i \in 1..Len(m.categories) |-> PyStr(m.categories[i])]),
           total |-> PyInt(m.total)])

\* CategoryList from the cached dict.
ParseCategories(obj) ==
    IF obj.t # "dict" THEN Raise("TypeError")
    ELSE IF ~(/\ {"categories", "total"} \subseteq DOMAIN obj.v
              /\ obj.v.categories.t = "list"
              /\ \A i \in 1..Len(obj.v.categories.v) :
                     obj.v.categories.v[i].t = "str"
              /\ obj.v.total.t = "int")
    THEN Raise("ValidationError")
    ELSE Ok([categories |-> [i \in 1..Len(obj.v.categories.v) |->
                                 obj.v.categories.v[i].s],
             total |-> obj.v.total.n])

\* The brand_list dict of get_brands, which is already JSON.
BrandDict(brands) ==
    JDict([brands |-> JList([i \in 1..Len(brands) |-> PyStr(brands[i])]),
           total |-> PyInt(Len(brands))])

----------------------------------------------------------------------------
(* The store: executing the queries ProductService builds *)

RowsOf(st) == {st[i] : i \in {j \in DOMAIN st : st[j] # Absent}}

\* The lower-cased characters of the texts and search terms of the model.
LowerChars(s) ==
    CASE s = "Tech Lamp" -> <<"t", "e", "c", "h", " ", "l", "a", "m", "p">>
      [] s = "Atlas" -> <<"a", "t", "l", "a", "s">>
      [] s = "A tech atlas" ->
            <<"a", " ", "t", "e", "c", "h", " ", "a", "t", "l", "a", "s">>
      [] s = "SKU-1" -> <<"s", "k", "u", "-", "1">>
      [] s = "SKU-2" -> <<"s", "k", "u", "-", "2">>
      [] s = "SKU-3" -> <<"s", "k", "u", "-", "3">>
      [] s = "Zenith" -> <<"z", "e", "n", "i", "t", "h">>
      [] s = "Tech" -> <<"t", "e", "c", "h">>
      [] s = "tech" -> <<"t", "e", "c", "h">>
      [] s = "atlas" -> <<"a", "t", "l", "a", "s">>
      [] s = "t_ch" -> <<"t", "_", "c", "h">>
      [] s = "%" -> <<"%">>
      [] s = "" -> <<>>

\* text LIKE pattern on characters: % is any run, _ is any one character.
RECURSIVE LikeMatch(_, _)
LikeMatch(text, pat) ==
    IF pat = <<>> THEN text = <<>>
    ELSE IF Head(pat) = "%"
         THEN \/ LikeMatch(text, Tail(pat))
              \/ text # <<>> /\ LikeMatch(Tail(text), pat)
    ELSE /\ text # <<>>
         /\ Head(pat) = "_" \/ Head(pat) = Head(text)
         /\ LikeMatch(Tail(text), Tail(pat))

\* column.ilike("%" + term + "%").
ILike(text, term) ==
    LikeMatch(LowerChars(text), <<"%">> \o LowerChars(term) \o <<"%">>)

\* A price bound of the filter, in cents.
Cents(v) == v.n * 100

\* Whether a row satisfies the WHERE clause.
Matches(row, w) ==
    /\ w.category # NoPred => row.category = w.category.s
    /\ w.brand # NoPred => row.brand = w.brand.s
    /\ w.min_price # NoPred => row.price >= Cents(w.min_price)
    /\ w.max_price # NoPred => row.price <= Cents(w.max_price)
    /\ w.search # NoPred =>
           \/ ILike(row.name, w.search.s)
           \/ row.description # PyNone /\ ILike(row.description.s, w.search.s)
           \/ ILike(row.sku, w.search.s)

\* select count(*) from (query).
CountQuery(st, w) == Cardinality({r \in RowsOf(st) : Matches(r, w)})

\* The value ORDER BY compares; NULL sorts as larger than any value.
SortKey(row, col) ==
    IF col \in {"sku", "name", "category", "brand"} THEN StrRank(row[col])
    ELSE IF col = "description"
         THEN IF row.description = PyNone THEN Len(StrOrder) + 1
              ELSE StrRank(row.description.s)
    ELSE row[col]

\* The orders in which the database may return the rows: sorted on the
\* column, rows with equal values in any order.
Orderings(rows, col, desc) ==
    {s \in [1..Cardinality(rows) -> rows] :
        /\ \A i, j \in DOMAIN s : i # j => s[i] # s[j]
        /\ \A i, j \in DOMAIN s : i < j =>
               IF desc THEN SortKey(s[i], col) >= SortKey(s[j], col)
               ELSE SortKey(s[i], col) <= SortKey(s[j], col)}

Min2(a, b) == IF a < b THEN a ELSE b

WindowOffByOne(s, offset, limit) ==
    IF offset + 1 >= Len(s) THEN <<>>
    ELSE SubSeq(s, offset + 2, Min2(offset + 1 + limit, Len(s)))

\* OFFSET offset LIMIT limit of an ordered result.
Window(s, offset, limit) ==
    IF offset >= Len(s) THEN <<>>
    ELSE SubSeq(s, offset + 1, Min2(offset + limit, Len(s)))

\* The results the item query may return.
ItemResults(st, q) ==
    {Window(s, q.offset, q.limit) :
        s \in Orderings({r \in RowsOf(st) : Matches(r, q.where)},
                        q.order.col, q.desc)}

ListResponseFloorPages(a, total, items) ==
    [data |-> [i \in 1..Len(items) |-> ProductOf(items[i])],
     total |-> total, page |-> a.page, limit |-> a.limit,
     pages |-> total \div a.limit]

\* pages = (total + limit - 1) // limit, and the ProductList built from the
\* rows of the page.
ListResponse(a, total, items) ==
    [data |-> [i \in 1..Len(items) |-> ProductOf(items[i])],
     total |-> total, page |-> a.page, limit |-> a.limit,
     pages |-> (total + a.limit - 1) \div a.limit]

RECURSIVE SumOf(_, _)
SumOf(rows, col) ==
    IF rows = {} THEN 0
    ELSE LET r == CHOOSE x \in rows : TRUE
         IN r[col] + SumOf(rows \ {r}, col)

\* SQL NULL, the value of min / max / avg / sum over no rows.
Null == [t |-> "null"]
Num(n) == [t |-> "num", n |-> n]

SqlMin(rows, col) ==
    IF rows = {} THEN Null
    ELSE Num((CHOOSE r \in rows : \A x \in rows : r[col] <= x[col])[col])

SqlMax(rows, col) ==
    IF rows = {} THEN Null
    ELSE Num((CHOOSE r \in rows : \A x \in rows : r[col] >= x[col])[col])

\* avg(rating), kept to hundredths.
SqlAvg(rows, col) ==
    IF rows = {} THEN Null ELSE Num(SumOf(rows, col) \div Cardinality(rows))

SqlSum(rows, col) == IF rows = {} THEN Null ELSE Num(SumOf(rows, col))

OrDefaultMissing(v, d) == IF v = Null THEN 0 - 1 ELSE v.n

\* `value or default` on an aggregate: NULL and zero both give the default.
OrDefault(v, d) == IF v = Null THEN d ELSE IF v.n = 0 THEN d ELSE v.n

\* The ProductStats get_stats builds from the aggregate row.
StatsOf(st) ==
    LET rows == RowsOf(st) IN
    [total_products |-> Cardinality(rows),
     total_categories |-> Cardinality({r.category : r \in rows}),
     total_brands |-> Cardinality({r.brand : r \in rows}),
     price_min |-> OrDefault(SqlMin(rows, "price"), 0),
     price_max |-> OrDefault(SqlMax(rows, "price"), 0),
     avg_rating |-> OrDefault(SqlAvg(rows, "rating"), 0),
     total_stock |-> OrDefault(SqlSum(rows, "stock_quantity"), 0)]

DistinctSortedDescending(vals) ==
    CHOOSE s \in [1..Cardinality(vals) -> vals] :
        \A i, j \in DOMAIN s : i < j => StrLess(s[j], s[i])

\* select distinct(column) order by column: the distinct strings, ascending.
DistinctSorted(vals) ==
    CHOOSE s \in [1..Cardinality(vals) -> vals] :
        \A i, j \in DOMAIN s : i < j => StrLess(s[i], s[j])

\* The CategoryList get_categories builds.
CategoriesOf(st) ==
    LET c == DistinctSorted({r.category : r \in RowsOf(st)})
    IN [categories |-> c, total |-> Len(c)]

\* The dict get_brands builds.
BrandsOf(st) == BrandDict(DistinctSorted({r.brand : r \in RowsOf(st)}))

----------------------------------------------------------------------------
(* Configuration: the cache TTLs, in seconds *)

CACHE_TTL_LIST == 120
CACHE_TTL_DETAIL == 900
CACHE_TTL_STATS == 300
CACHE_TTL_CATEGORIES == 3600

----------------------------------------------------------------------------
(* CacheService over the Redis keyspace *)

\* A value stored in Redis: the JSON text of an object, a text that is no
\* JSON, or the empty string.
JsonText(obj) == [t |-> "text", json |-> obj]
GarbageText == [t |-> "text", json |-> Invalid]
EmptyText == [t |-> "empty"]
Nil == [t |-> "nil"]

\* A value json.dumps cannot serialize even with default=str.
Circular == [t |-> "circular"]

NeverExpires(c, t) == c

\* The entries Redis still holds at time t: a key set with SETEX is gone once
\* its ttl has elapsed.
Live(c, t) == [k \in {x \in DOMAIN c : t < c[x].exp} |-> c[k]]

\* GET key.
RedisGet(c, t, key) ==
    IF key \in DOMAIN Live(c, t) THEN Live(c, t)[key].payload ELSE Nil

CacheExceptReraise(default) == Raise("CacheError")

\* `except Exception as e: print(...)`, then the method's failure value.
CacheExcept(default) == Ok(default)

\* bool(obj) of a decoded JSON value.
JTruthy(obj) ==
    CASE obj.t = "dict" -> DOMAIN obj.v # {}
      [] obj.t = "list" -> Len(obj.v) > 0
      [] OTHER -> Truthy(obj)

\* CacheService.get; fault: the Redis call raises.
CacheGet(rd, c, t, key, fault) ==
    IF rd = "none" THEN Ok(PyNone)
    ELSE IF fault THEN CacheExcept(PyNone)
    ELSE LET value == RedisGet(c, t, key) IN
         IF value = Nil \/ value = EmptyText THEN Ok(PyNone)
         ELSE IF value.json = Invalid THEN CacheExcept(PyNone)
         ELSE Ok(value.json)

CacheSetOnlyKey(rd, c, t, key, value, ttl, fault, meta) ==
    IF rd = "none" THEN [res |-> Ok(FALSE), cache |-> c]
    ELSE IF value = Circular \/ fault
    THEN [res |-> CacheExcept(FALSE), cache |-> c]
    ELSE [res |-> Ok(TRUE),
          cache |-> [k \in {key} |->
                        [payload |-> JsonText(value), exp |-> t + ttl,
                         setAt |-> t, meta |-> meta]]]

\* CacheService.set; meta: the history kept with the entry.
CacheSet(rd, c, t, key, value, ttl, fault, meta) ==
    IF rd = "none" THEN [res |-> Ok(FALSE), cache |-> c]
    ELSE IF value = Circular \/ fault
    THEN [res |-> CacheExcept(FALSE), cache |-> c]
    ELSE [res |-> Ok(TRUE),
          cache |-> [k \in DOMAIN Live(c, t) \cup {key} |->
                        IF k = key
                        THEN [payload |-> JsonText(value), exp |-> t + ttl,
                              setAt |-> t, meta |-> meta]
                        ELSE c[k]]]

\* CacheService.delete.
CacheDelete(rd, c, t, key, fault) ==
    IF rd = "none" THEN [res |-> Ok(FALSE), cache |-> c]
    ELSE IF fault THEN [res |-> CacheExcept(FALSE), cache |-> c]
    ELSE [res |-> Ok(TRUE),
          cache |-> [k \in DOMAIN Live(c, t) \ {key} |-> c[k]]]

DetailKeyNoId(id) == "products:detail:"

\* f"products:detail:{product_id}".
DetailKey(id) == "products:detail:" \o ToString(id)

\* Redis glob matching, for the patterns the model passes.
GlobMatch(pattern, key) ==
    CASE pattern = "products:*" -> TRUE
      [] pattern = "products:detail:*" -> key \in {DetailKey(i) : i \in Ids}
      [] OTHER -> pattern = key

\* CacheService.clear_pattern.
CacheClearPattern(rd, c, t, pattern, fault) ==
    IF rd = "none" THEN [res |-> Ok(0), cache |-> c]
    ELSE IF fault THEN [res |-> CacheExcept(0), cache |-> c]
    ELSE LET keys == {k \in DOMAIN Live(c, t) : GlobMatch(pattern, k)} IN
         IF keys # {}
         THEN [res |-> Ok(Cardinality(keys)),
               cache |-> [k \in DOMAIN Live(c, t) \ keys |-> c[k]]]
         ELSE [res |-> Ok(0), cache |-> c]

----------------------------------------------------------------------------
(* Bounds of the model *)

MaxParams == 3
MaxRequests == 2
MaxTimedRequests == 2
MaxRaceRequests == 3
MaxForeignRequests == 2
MaxWrites == 1
MaxTicks == 2
MaxPage == 3
MaxStoreRequests == 2
MaxStampedeRequests == 3
MaxHangRequests == 2
MaxLimit == 2
MaxExpiryRequests == 2
MaxNotFoundRequests == 3
MaxShapeRequests == 3

\* The workers that run requests; a request takes the first free one.
Procs == {1, 2}

\* The clock advances by one of these steps, in seconds.
TickSteps == {100, 900}

RangeOf(s) == {s[i] : i \in DOMAIN s}

----------------------------------------------------------------------------
(* Initial values *)

DefaultArgs ==
    [page |-> 1, limit |-> 50, sort_by |-> "id", sort_order |-> "asc",
     category |-> PyNone, brand |-> PyNone, min_price |-> PyNone,
     max_price |-> PyNone, search |-> PyNone]

\* An awaited call of a request, for its history: a cache get or set with
\* its key, or a store query and whether it succeeded.
Event(e, key, ok) == [e |-> e, key |-> key, ok |-> ok]

IdleFrame ==
    [pc |-> "idle", op |-> "none", arg |-> NotRun, key |-> "",
     total |-> 0, resp |-> NotRun, out |-> NotRun,
     \* history, read by the properties only
     nq |-> 0, entry |-> NotRun, served |-> FALSE, wrote |-> NotRun,
     getFail |-> FALSE, setFail |-> FALSE, storeFail |-> FALSE,
     afterExpiry |-> FALSE, trace |-> <<>>,
     readAt |-> 0, retAt |-> 0, snap1 |-> NotRun, snap2 |-> NotRun]

\* The service as constructed: CacheService.redis is None, nothing is
\* cached, no request runs; the table holds the first seeded product.
SysInit ==
    /\ redis = "none"
    /\ cache = <<>>
    /\ now = 0
    /\ store = [i \in Ids |-> IF i = 1 THEN Seed(1) ELSE Absent]
    /\ req = [r \in Procs |-> IdleFrame]
    /\ last = NotRun
    /\ budget = MaxRequests
    /\ writes = 0
    /\ ticks = 0
    /\ expired = {}

KeyIdle == kp1 = <<>> /\ kp2 = <<>> /\ kout = NotRun
ListIdle ==
    la = DefaultArgs /\ lb = DefaultArgs /\ lout = NotRun /\ lres = NotRun
CsIdle == cs = NotRun

----------------------------------------------------------------------------
(* Environment: the clock, the Redis server, other writers *)

\* CacheService.connect.
Connect ==
    /\ redis = "none"
    /\ redis' = "client"
    /\ UNCHANGED <<cache, now, store, req, last, budget, writes, ticks, expired>>
    /\ UNCHANGED <<keyvars, listvars, csvars>>

\* Time passes; Redis drops the entries whose ttl has elapsed.
Tick(d) ==
    /\ ticks < MaxTicks
    /\ ticks' = ticks + 1
    /\ now' = now + d
    /\ cache' = Live(cache, now + d)
    /\ expired' = expired \cup {k \in DOMAIN cache : cache[k].exp <= now + d}
    /\ UNCHANGED <<redis, store, req, last, budget, writes>>
    /\ UNCHANGED <<keyvars, listvars, csvars>>

-----------------------------------------------------------------------\* The list query the requests of the system models make.
PricedDesc ==
    [DefaultArgs EXCEPT !.limit = 1, !.sort_by = "price", !.sort_order = "desc"]

\* What another writer of the same Redis may leave under a key: a text that
\* is no JSON, a dict of another schema, a list.
ForeignPayloads ==
    {GarbageText, JsonText(JDict([id |-> PyInt(1)])),
     JsonText(JList(<<PyInt(1)>>))}

ForeignKeys ==
    {DetailKey(1), "products:stats", "products:categories",
     "products:brands", ListKey(PricedDesc)}

\* Another client of the Redis server writes a key (once in the model).
ForeignWrite(key, payload) ==
    /\ \A k \in DOMAIN cache : cache[k].meta.by # "foreign"
    /\ cache' = [k \in DOMAIN Live(cache, now) \cup {key} |->
                    IF k = key
                    THEN [payload |-> payload, exp |-> now + CACHE_TTL_CATEGORIES,
                          setAt |-> now, meta |-> [by |-> "foreign"]]
                    ELSE cache[k]]
    /\ expired' = expired \ {key}
    /\ UNCHANGED <<redis, now, store, req, last, budget, writes, ticks>>
    /\ UNCHANGED <<keyvars, listvars, csvars>>

-----
(* Key derivation on its own: _generate_key over parameter mappings *)

KeyNameSample == {"page", "category", "brand", "search"}
KeyValueSample == {PyNone, PyStr(""), PyInt(1)}

\* The dicts of at most MaxParams items, as their items in insertion order.
KeyMappings ==
    UNION {{s \in [1..n -> KeyNameSample \X KeyValueSample] :
               \A i, j \in 1..n : i # j => s[i][1] # s[j][1]} :
           n \in 0..MaxParams}

\* The same items inserted in another order.
Reorderings(s) ==
    {u \in [1..Len(s) -> RangeOf(s)] : RangeOf(u) = RangeOf(s)}

InitKey ==
    /\ SysInit /\ ListIdle /\ CsIdle
    /\ kp1 \in KeyMappings
    /\ kp2 \in Reorderings(kp1)
    /\ kout = NotRun

generate_key(prefix) ==
    /\ kout = NotRun
    /\ kout' = [prefix |-> prefix,
                k1 |-> GenerateKey(prefix, kp1),
                k2 |-> GenerateKey(prefix, kp2)]
    /\ UNCHANGED <<kp1, kp2>>
    /\ UNCHANGED <<sysvars, listvars, csvars>>

NextKey == \E prefix \in {"products:list", "products:other"} : generate_key(prefix)

SpecKey == InitKey /\ [][NextKey]_vars

----------------------------------------------------------------------------
(* get_products on its own: the cache key and the store query of a call *)

ListArgSpace ==
    [page : {1, 2}, limit : {2},
     sort_by : {"id", "price", "sku", "__tablename__", "no_such_field"},
     sort_order : {"asc", "desc"},
     category : {PyNone, PyStr(""), PyStr("Home")},
     brand : {PyNone, PyStr("")},
     min_price : {PyNone, PyFloat(0)},
     max_price : {PyNone, PyFloat(0)},
     search : {PyNone, PyStr("")}]

ListArgNames == DOMAIN DefaultArgs

\* A second call whose arguments differ from a's in at most one parameter.
OneParameterApart(a) ==
    {b \in ListArgSpace :
        Cardinality({f \in ListArgNames : a[f] # b[f]}) <= 1}

InitList ==
    /\ SysInit /\ KeyIdle /\ CsIdle
    /\ la \in ListArgSpace
    /\ lb \in OneParameterApart(la)
    /\ lout = NotRun
    /\ lres = NotRun

\* Both calls derive their key and build their item query.
get_products_build ==
    /\ lout = NotRun
    /\ lout' = [ka |-> ListKey(la), kb |-> ListKey(lb),
                qa |-> ItemQuery(la), qb |-> ItemQuery(lb)]
    /\ UNCHANGED <<la, lb, lres>>
    /\ UNCHANGED <<sysvars, keyvars, csvars>>

NextList == get_products_build

SpecList == InitList /\ [][NextList]_vars

----------------------------------------------------------------------------
(* Claims on key derivation and query construction *)

\* C4: a sort_by outside {id, name, price, rating, created_at} never selects
\* the column the query is ordered by: the call is rejected or ordered by
\* id, and two such values get the same treatment.
C4_SortAllowList ==
    lout # NotRun =>
        /\ la.sort_by \notin SortAllowList =>
               lout.qa.order.raised \/ lout.qa.order.col = "id"
        /\ la.sort_by \notin SortAllowList /\ lb.sort_by \notin SortAllowList
               => lout.qa.order = lout.qb.order
                  \/ (lout.qa.order.raised /\ lout.qb.order.raised)

\* C5: two get_products calls that build the same store query (predicates,
\* sort column, direction, offset, limit) derive the same cache key.
C5_SameQuerySameKey ==
    lout # NotRun /\ ~lout.qa.order.raised /\ lout.qa = lout.qb
        => lout.ka = lout.kb

OptionalFields == {"category", "brand", "search", "min_price", "max_price"}

\* b is a with optional field f present but empty instead of absent.
AbsentVsEmpty(a, b, f) ==
    /\ a[f] = PyNone
    /\ b[f] = IF f \in {"min_price", "max_price"} THEN PyFloat(0) ELSE PyStr("")
    /\ \A g \in ListArgNames \ {f} : a[g] = b[g]

\* C6: the key does not depend on the order in which the parameters were
\* inserted into the mapping.
C6_KeyOrderIndependent ==
    kout # NotRun => kout.k1 = kout.k2

C6_Witness ==
    kout # NotRun /\ Len(kp1) = MaxParams /\ kp1 # kp2
        /\ kp2[1] = kp1[MaxParams]

\* C7: a list filter with an optional field absent and the same filter with
\* that field present but empty ("" or 0) derive different keys.
C7_AbsentDiffersFromEmpty ==
    lout # NotRun =>
        \A f \in OptionalFields : AbsentVsEmpty(la, lb, f) => lout.ka # lout.kb

C7_Witness ==
    lout # NotRun /\ AbsentVsEmpty(la, lb, "min_price")
        /\ la.category = PyStr("")

----------------------------------------------------------------------------
(* CacheService on its own: its four operations called directly *)

CallKeys == {DetailKey(1), "products:stats"}
CallValues == {JDict([id |-> PyInt(1)]), JList(<<>>), Circular}
CallPatterns == {"products:*", "products:detail:*", "products:stats"}

\* Whether GET key would hand a text that json.loads rejects.
Undecodable(c, t, key) ==
    RedisGet(c, t, key) \notin {Nil, EmptyText}
        /\ RedisGet(c, t, key).json = Invalid

cache_get(key, fault) ==
    /\ cs' = [op |-> "get",
              failed |-> redis = "none" \/ fault
                         \/ Undecodable(cache, now, key),
              res |-> CacheGet(redis, cache, now, key, fault)]
    /\ UNCHANGED sysvars
    /\ UNCHANGED <<keyvars, listvars>>

cache_set(key, value, ttl, fault) ==
    LET w == CacheSet(redis, cache, now, key, value, ttl, fault,
                      [by |-> "direct"]) IN
    /\ cs' = [op |-> "set",
              failed |-> redis = "none" \/ fault \/ value = Circular,
              res |-> w.res]
    /\ cache' = w.cache
    /\ expired' = IF w.res.val = TRUE THEN expired \ {key} ELSE expired
    /\ UNCHANGED <<redis, now, store, req, last, budget, writes, ticks>>
    /\ UNCHANGED <<keyvars, listvars>>

cache_delete(key, fault) ==
    LET w == CacheDelete(redis, cache, now, key, fault) IN
    /\ cs' = [op |-> "delete", failed |-> redis = "none" \/ fault,
              res |-> w.res]
    /\ cache' = w.cache
    /\ UNCHANGED <<redis, now, store, req, last, budget, writes, ticks, expired>>
    /\ UNCHANGED <<keyvars, listvars>>

cache_clear_pattern(pattern, fault) ==
    LET w == CacheClearPattern(redis, cache, now, pattern, fault) IN
    /\ cs' = [op |-> "clear_pattern", failed |-> redis = "none" \/ fault,
              res |-> w.res]
    /\ cache' = w.cache
    /\ UNCHANGED <<redis, now, store, req, last, budget, writes, ticks, expired>>
    /\ UNCHANGED <<keyvars, listvars>>

InitCache == SysInit /\ KeyIdle /\ ListIdle /\ CsIdle

NextCache ==
    \/ Connect
    \/ \E d \in TickSteps : Tick(d)
    \/ \E k \in CallKeys, p \in ForeignPayloads : ForeignWrite(k, p)
    \/ \E k \in CallKeys, f \in BOOLEAN : cache_get(k, f)
    \/ \E k \in CallKeys, v \in CallValues, f \in BOOLEAN :
           cache_set(k, v, CACHE_TTL_LIST, f)
    \/ \E k \in CallKeys, f \in BOOLEAN : cache_delete(k, f)
    \/ \E p \in CallPatterns, f \in BOOLEAN : cache_clear_pattern(p, f)

SpecCache == InitCache /\ [][NextCache]_vars

\* C1: no CacheService operation raises; when the client was never
\* connected or the backend raised, get gives None, set and delete give
\* False, clear_pattern gives 0.
C1_FailOpen ==
    cs # NotRun =>
        /\ ~cs.res.raised
        /\ cs.failed =>
               /\ cs.op = "get" => cs.res.val = PyNone
               /\ cs.op \in {"set", "delete"} => cs.res.val = FALSE
               /\ cs.op = "clear_pattern" => cs.res.val = 0

C1_Witness ==
    cs # NotRun /\ cs.failed /\ redis = "client" /\ cs.op = "clear_pattern"
        /\ DOMAIN cache # {}

----------------------------------------------------------------------------
(* ProductService: the five cache-through operations *)

SysListArgs == {PricedDesc}

Calls ==
    {[op |-> "list", arg |-> a] : a \in SysListArgs}
        \cup {[op |-> "detail", arg |-> [id |-> i]] : i \in Ids}
        \cup {[op |-> o, arg |-> NotRun] : o \in {"stats", "categories", "brands"}}

\* cache_key of each operation.
KeyOf(op, arg) ==
    CASE op = "list" -> ListKey(arg)
      [] op = "detail" -> DetailKey(arg.id)
      [] op = "stats" -> "products:stats"
      [] op = "categories" -> "products:categories"
      [] op = "brands" -> "products:brands"

HitResultRaw(op, cached) == Ok(cached)

\* `if cached: return Model(**cached)`; get_brands returns cached as it is.
HitResult(op, cached) ==
    CASE op = "list" -> ParseList(cached)
      [] op = "detail" -> ParseDetail(cached)
      [] op = "stats" -> ParseStats(cached)
      [] op = "categories" -> ParseCategories(cached)
      [] op = "brands" -> Ok(cached)

\* The value handed to cache_service.set: model_dump(mode='json'), or the
\* brand_list dict.
DumpOf(op, resp) ==
    CASE op = "list" -> DumpList(resp)
      [] op = "detail" -> DumpDetail(resp)
      [] op = "stats" -> DumpStats(resp)
      [] op = "categories" -> DumpCategories(resp)
      [] op = "brands" -> resp

TtlAllList(op) == CACHE_TTL_LIST

TtlAllCategories(op) == CACHE_TTL_CATEGORIES

\* The ttl each operation passes to cache_service.set.
TtlOf(op) ==
    CASE op = "list" -> CACHE_TTL_LIST
      [] op = "detail" -> CACHE_TTL_DETAIL
      [] op = "stats" -> CACHE_TTL_STATS
      [] op = "categories" -> CACHE_TTL_CATEGORIES
      [] op = "brands" -> CACHE_TTL_CATEGORIES

AfterSetChecked(resp, setres) ==
    IF setres.raised THEN setres
    ELSE IF setres.val = FALSE THEN Raise("CacheError")
    ELSE Ok(resp)

\* `await cache_service.set(...)` then `return response`: the value set
\* returns is dropped.
AfterSet(resp, setres) == IF setres.raised THEN setres ELSE Ok(resp)

\* The entry Redis holds under the key, for the history of a request.
EntryAt(c, t, key) ==
    IF key \in DOMAIN Live(c, t) THEN Live(c, t)[key] ELSE NotRun

\* The request returns (or raises): its worker is free again.
Finish(r, f) ==
    /\ req' = [req EXCEPT ![r] = IdleFrame]
    /\ last' = [f EXCEPT !.pc = "done"]

\* The request is suspended at its next await.
Continue(r, f) ==
    /\ req' = [req EXCEPT ![r] = f]
    /\ UNCHANGED last

\* A request starts: it derives its key and awaits cache_service.get; on a
\* hit it returns the cached value, on a miss it goes on to the store.
Begin(r, call, fault) ==
    LET key == KeyOf(call.op, call.arg)
        g == CacheGet(redis, cache, now, key, fault)
        f == [IdleFrame EXCEPT
                 !.op = call.op, !.arg = call.arg, !.key = key,
                 !.entry = EntryAt(cache, now, key),
                 !.trace = <<Event("get", key, ~(redis = "none" \/ fault))>>,
                 !.getFail = (redis = "none" \/ fault),
                 !.afterExpiry = (key \in expired)]
    IN
    /\ req[r].pc = "idle"
    /\ \A q \in Procs : q < r => req[q].pc # "idle"
    /\ budget > 0
    /\ budget' = budget - 1
    /\ expired' = expired \ {key}
    /\ IF g.raised
       THEN Finish(r, [f EXCEPT !.out = g, !.retAt = now])
       ELSE IF JTruthy(g.val)
       THEN Finish(r, [f EXCEPT !.out = HitResult(call.op, g.val),
                                !.served = TRUE, !.retAt = now])
       ELSE Continue(r, [f EXCEPT !.pc = IF call.op = "list" THEN "count"
                                        ELSE "query"])
    /\ UNCHANGED <<redis, cache, now, store, writes, ticks>>
    /\ UNCHANGED <<keyvars, listvars, csvars>>

\* get_products: the count query, then the sort column is resolved.
CountStep(r) ==
    LET f == req[r] IN
    /\ f.pc = "count"
    /\ LET g == [f EXCEPT !.total = CountQuery(store, Where(f.arg)),
                          !.trace = Append(f.trace, Event("query", "", TRUE)),
                          !.nq = f.nq + 1, !.readAt = now, !.snap1 = store]
       IN IF SortColumn(f.arg.sort_by).raised
          THEN Finish(r, [g EXCEPT !.out = Raise("AttributeError"),
                                   !.retAt = now])
          ELSE Continue(r, [g EXCEPT !.pc = "items"])
    /\ UNCHANGED <<redis, cache, now, store, budget, writes, ticks, expired>>
    /\ UNCHANGED <<keyvars, listvars, csvars>>

\* get_products: the item query and the response built from it.
ItemsStep(r) ==
    LET f == req[r] IN
    /\ f.pc = "items"
    /\ \E items \in ItemResults(store, ItemQuery(f.arg)) :
           Continue(r, [f EXCEPT !.pc = "set", !.nq = f.nq + 1,
                                 !.trace = Append(f.trace,
                                                  Event("query", "", TRUE)),
                                 !.snap2 = store,
                                 !.resp = ListResponse(f.arg, f.total, items)])
    /\ UNCHANGED <<redis, cache, now, store, budget, writes, ticks, expired>>
    /\ UNCHANGED <<keyvars, listvars, csvars>>

\* What the single store query of the other four operations computes; for
\* get_product PyNone when no row has the id.
Computed(op, arg, st) ==
    CASE op = "detail" ->
            IF st[arg.id] = Absent THEN PyNone ELSE DetailOf(st[arg.id])
      [] op = "stats" -> StatsOf(st)
      [] op = "categories" -> CategoriesOf(st)
      [] op = "brands" -> BrandsOf(st)

QueryStepCachesNotFound(r) ==
    LET f == req[r]
        v == Computed(f.op, f.arg, store)
        g == [f EXCEPT !.nq = f.nq + 1, !.readAt = now, !.snap1 = store,
                       !.trace = Append(f.trace, Event("query", "", TRUE))]
        w == CacheSet(redis, cache, now, f.key, JDict([found |-> PyInt(0)]),
                      TtlOf(f.op), FALSE, [by |-> f.op, src |-> v,
                                           readAt |-> now, first |-> v])
    IN
    /\ f.pc = "query"
    /\ IF v = PyNone
       THEN Finish(r, [g EXCEPT !.out = Ok(PyNone), !.retAt = now])
       ELSE Continue(r, [g EXCEPT !.pc = "set", !.resp = v])
    /\ cache' = IF v = PyNone THEN w.cache ELSE cache
    /\ UNCHANGED <<redis, now, store, budget, writes, ticks, expired>>
    /\ UNCHANGED <<keyvars, listvars, csvars>>

QueryStepReturnsBeforeSet(r) ==
    LET f == req[r]
        v == Computed(f.op, f.arg, store)
    IN
    /\ f.pc = "query"
    /\ Finish(r, [f EXCEPT !.nq = f.nq + 1, !.readAt = now, !.snap1 = store,
                           !.trace = Append(f.trace, Event("query", "", TRUE)),
                           !.out = Ok(v), !.retAt = now])
    /\ UNCHANGED <<redis, cache, now, store, budget, writes, ticks, expired>>
    /\ UNCHANGED <<keyvars, listvars, csvars>>

\* get_product, get_stats, get_categories, get_brands: the store query.
\* get_product returns None for a missing row, without a cache set.
QueryStep(r) ==
    LET f == req[r]
        v == Computed(f.op, f.arg, store)
        g == [f EXCEPT !.nq = f.nq + 1, !.readAt = now, !.snap1 = store,
                       !.trace = Append(f.trace, Event("query", "", TRUE))]
    IN
    /\ f.pc = "query"
    /\ IF v = PyNone
       THEN Finish(r, [g EXCEPT !.out = Ok(PyNone), !.retAt = now])
       ELSE Continue(r, [g EXCEPT !.pc = "set", !.resp = v])
    /\ UNCHANGED <<redis, cache, now, store, budget, writes, ticks, expired>>
    /\ UNCHANGED <<keyvars, listvars, csvars>>

SetStepIfAbsent(r, fault) ==
    LET f == req[r]
        old == EntryAt(cache, now, f.key)
        meta == [by |-> f.op, src |-> f.resp, readAt |-> f.readAt,
                 first |-> f.resp]
        w == CacheSet(redis, cache, now, f.key, DumpOf(f.op, f.resp),
                      TtlOf(f.op), fault, meta)
    IN
    /\ f.pc = "set"
    /\ cache' = IF old # NotRun THEN cache ELSE w.cache
    /\ expired' = expired \ {f.key}
    /\ Finish(r, [f EXCEPT !.out = Ok(f.resp),
                           !.trace = IF old # NotRun THEN f.trace
                                     ELSE Append(f.trace,
                                                 Event("set", f.key, TRUE)),
                           !.wrote = IF old # NotRun THEN NotRun
                                     ELSE w.cache[f.key],
                           !.retAt = now])
    /\ UNCHANGED <<redis, now, store, budget, writes, ticks>>
    /\ UNCHANGED <<keyvars, listvars, csvars>>

\* The request awaits cache_service.set with the ttl of its shape and
\* returns its response.
SetStep(r, fault) ==
    LET f == req[r]
        old == EntryAt(cache, now, f.key)
        meta == [by |-> f.op, src |-> f.resp, readAt |-> f.readAt,
                 first |-> IF old # NotRun /\ old.meta.by = f.op
                           THEN old.meta.first ELSE f.resp]
        w == CacheSet(redis, cache, now, f.key, DumpOf(f.op, f.resp),
                      TtlOf(f.op), fault, meta)
    IN
    /\ f.pc = "set"
    /\ cache' = w.cache
    /\ expired' = IF w.res.val = TRUE THEN expired \ {f.key} ELSE expired
    /\ Finish(r, [f EXCEPT !.out = AfterSet(f.resp, w.res),
                           !.trace = Append(f.trace,
                                            Event("set", f.key,
                                                  w.res.val = TRUE)),
                           !.setFail = (redis = "none" \/ fault),
                           !.wrote = IF w.res.val = TRUE THEN w.cache[f.key]
                                     ELSE NotRun,
                           !.retAt = now])
    /\ UNCHANGED <<redis, now, store, budget, writes, ticks>>
    /\ UNCHANGED <<keyvars, listvars, csvars>>

\* An external writer inserts, updates or deletes a product.
StoreWrite(id, v) ==
    /\ writes < MaxWrites
    /\ store[id] # v
    /\ writes' = writes + 1
    /\ store' = [store EXCEPT ![id] = v]
    /\ UNCHANGED <<redis, cache, now, req, last, budget, ticks, expired>>
    /\ UNCHANGED <<keyvars, listvars, csvars>>

RowValues(id) == {Absent} \cup {[Seed(id) EXCEPT !.price = p] : p \in Prices}

Init == SysInit /\ KeyIdle /\ ListIdle /\ CsIdle

\* The steps of a request after its start.
Steps(faults) ==
    \/ \E r \in Procs : CountStep(r)
    \/ \E r \in Procs : ItemsStep(r)
    \/ \E r \in Procs : QueryStep(r)
    \/ \E r \in Procs, f \in faults : SetStep(r, f)

\* Concurrent requests over a cache that may be unconnected or failing.
Next ==
    \/ Connect
    \/ \E r \in Procs, c \in Calls, f \in BOOLEAN : Begin(r, c, f)
    \/ Steps(BOOLEAN)

Spec == Init /\ [][Next]_vars

\* The results a request may return when it is computed from the backing
\* store alone: the list response of the two queries over the table as each
\* one saw it, or the single query of the other operations.
FromStore(f) ==
    IF f.op = "list"
    THEN {ListResponse(f.arg, CountQuery(f.snap1, Where(f.arg)), items) :
              items \in ItemResults(f.snap2, ItemQuery(f.arg))}
    ELSE {Computed(f.op, f.arg, f.snap1)}

\* C2: a request whose cache get failed, whose cache set failed, or both
\* (the client unconnected or the backend raising), returns successfully
\* the result computed from the backing store for its arguments.
C2_CacheLossKeepsResult ==
    (last # NotRun /\ (last.getFail \/ last.setFail)) =>
        /\ ~last.out.raised
        /\ last.out.val \in FromStore(last)

C2_Witness ==
    /\ last # NotRun
    /\ last.op = "list"
    /\ last.getFail /\ last.setFail
    /\ redis = "client"
    /\ last.out = Ok(last.resp)

\* The service after startup: Redis connected, the cache empty, the seeded
\* table, and b requests to come.
Started(b) ==
    /\ redis = "client"
    /\ cache = <<>>
    /\ now = 0
    /\ store = [i \in Ids |-> IF i = 1 THEN Seed(1) ELSE Absent]
    /\ req = [r \in Procs |-> IdleFrame]
    /\ last = NotRun
    /\ budget = b
    /\ writes = 0
    /\ ticks = 0
    /\ expired = {}
    /\ KeyIdle /\ ListIdle /\ CsIdle

TimedCalls ==
    {[op |-> "list", arg |-> PricedDesc], [op |-> "detail", arg |-> [id |-> 1]]}

\* Requests over a working cache while time passes and a product is deleted.
InitTime == Started(MaxTimedRequests)

NextTime ==
    \/ \E r \in Procs, c \in TimedCalls : Begin(r, c, FALSE)
    \/ Steps({FALSE})
    \/ \E d \in TickSteps : Tick(d)
    \/ StoreWrite(1, Absent)

SpecTime == InitTime /\ [][NextTime]_vars

\* The TTL window of each query shape.
ShapeTtl(op) ==
    CASE op = "list" -> CACHE_TTL_LIST
      [] op = "detail" -> CACHE_TTL_DETAIL
      [] op = "stats" -> CACHE_TTL_STATS
      [] op \in {"categories", "brands"} -> CACHE_TTL_CATEGORIES

\* The entry a request wrote holds its response, for the window of its shape.
FreshEntry(f) ==
    /\ f.wrote # NotRun
    /\ f.wrote.payload = JsonText(DumpOf(f.op, f.resp))
    /\ f.wrote.setAt = f.retAt
    /\ f.wrote.exp - f.wrote.setAt = ShapeTtl(f.op)

\* C9 as stated: the first fetch of a key after its entry expired misses,
\* queries the store and writes the fresh result back with the shape's TTL.
C9_RefillAfterExpiry ==
    (last # NotRun /\ last.afterExpiry) =>
        /\ ~last.served
        /\ last.nq >= 1
        /\ FreshEntry(last)

\* C9, amended: the first fetch of a key after its entry expired misses and
\* queries the store; it writes the fresh result back with the shape's TTL
\* unless get_product found no row, and then it returns None and writes
\* nothing.
C9_RefillAfterExpiryUnlessNone ==
    (last # NotRun /\ last.afterExpiry) =>
        /\ ~last.served
        /\ last.nq >= 1
        /\ IF last.out = Ok(PyNone)
           THEN last.op = "detail" /\ last.wrote = NotRun
           ELSE FreshEntry(last) /\ last.out = Ok(last.resp)

C9_Witness ==
    /\ last # NotRun
    /\ last.afterExpiry
    /\ last.op = "detail"
    /\ last.wrote # NotRun
    /\ last.readAt >= CACHE_TTL_DETAIL

\* C10 as stated: a value returned from the cache was computed from a store
\* state at most one TTL window old when it is returned.
C10_StoreStateWithinTtl ==
    (last # NotRun /\ last.served) =>
        last.retAt - last.entry.meta.readAt <= ShapeTtl(last.op)

\* C10, amended: a value returned from the cache was written to the cache
\* less than one TTL window before it is returned; the store state it was
\* computed from is older by the time its writer spent between the store
\* query and the cache set.
C10_EntryWithinTtl ==
    (last # NotRun /\ last.served) =>
        /\ last.retAt - last.entry.setAt < ShapeTtl(last.op)
        /\ last.entry.meta.readAt <= last.entry.setAt

C10_Witness ==
    /\ last # NotRun
    /\ last.served
    /\ last.retAt > last.entry.setAt
    /\ last.entry.setAt > last.entry.meta.readAt

\* Concurrent requests over a working cache while the table is written.
InitRace == Started(MaxRaceRequests)

NextRace ==
    \/ \E r \in Procs, c \in Calls : Begin(r, c, FALSE)
    \/ Steps({FALSE})
    \/ \E v \in RowValues(1) : StoreWrite(1, v)

SpecRace == InitRace /\ [][NextRace]_vars

\* get_product found a live entry that get_product wrote.
DetailFromCache(f) ==
    /\ f # NotRun
    /\ f.op = "detail"
    /\ f.entry # NotRun
    /\ f.entry.meta.by = "detail"

\* C8 as stated: a get_product made while the entry of its id is live
\* returns a value equal to the first one cached for the id, with no store
\* query.
C8_EqualsFirstFetch ==
    DetailFromCache(last) =>
        last.out = Ok(last.entry.meta.first) /\ last.nq = 0

\* C8, amended: a get_product made while the entry of its id is live
\* returns a value equal to the one returned by the request that wrote
\* that entry, with no store query.
C8_EqualsEntryWriter ==
    DetailFromCache(last) =>
        last.out = Ok(last.entry.meta.src) /\ last.nq = 0

C8_Witness ==
    /\ DetailFromCache(last)
    /\ last.served
    /\ last.entry.meta.src.price = 1005

\* The shapes whose operations have an entry in the cache.
CachedShapes == {cache[k].meta.by : k \in DOMAIN cache}

\* C22: every entry an operation wrote expires the configured TTL of its
\* shape after it was set (list CACHE_TTL_LIST, detail CACHE_TTL_DETAIL,
\* stats CACHE_TTL_STATS, categories and brands CACHE_TTL_CATEGORIES); with
\* the defaults the list TTL is the shortest, the detail and stats TTLs lie
\* between, the categories/brands TTL is the longest.
C22_TtlPerShape ==
    /\ \A k \in DOMAIN cache :
           cache[k].exp - cache[k].setAt =
               CASE cache[k].meta.by = "list" -> CACHE_TTL_LIST
                 [] cache[k].meta.by = "detail" -> CACHE_TTL_DETAIL
                 [] cache[k].meta.by = "stats" -> CACHE_TTL_STATS
                 [] cache[k].meta.by = "categories" -> CACHE_TTL_CATEGORIES
                 [] cache[k].meta.by = "brands" -> CACHE_TTL_CATEGORIES
    /\ (last # NotRun /\ last.wrote # NotRun) =>
           last.wrote.meta.by = last.op
    /\ \A t \in {CACHE_TTL_DETAIL, CACHE_TTL_STATS} :
           CACHE_TTL_LIST < t /\ t < CACHE_TTL_CATEGORIES

C22_Witness ==
    /\ {"list", "brands", "detail"} \subseteq CachedShapes
    /\ last # NotRun /\ last.wrote # NotRun

\* A request starts and returns in the same step: it was served by its
\* cache get.
HitStep == budget' < budget /\ req' = req

\* C23: a request whose cache get finds a live entry returns the value the
\* writer of that entry returned, with no store query and no cache write;
\* the step leaves the cache, the expiry of the entry included, and the
\* store as they were.  This holds for each of the five shapes.
C23_HitTouchesNothing ==
    /\ []((last # NotRun /\ last.entry # NotRun) =>
              /\ last.served
              /\ last.out = Ok(last.entry.meta.src)
              /\ last.entry.meta.by = last.op
              /\ last.nq = 0
              /\ last.wrote = NotRun)
    /\ [][HitStep => (cache' = cache /\ store' = store /\ last'.served)]_vars

C23_Witness ==
    /\ last # NotRun
    /\ last.served
    /\ last.op = "list"
    /\ last.out.val \notin FromStore([last EXCEPT !.snap1 = store,
                                                  !.snap2 = store])
    /\ {"stats", "list"} \subseteq CachedShapes

\* C27: the total and pages of a list response computed from the store,
\* and of the entry cached for it, are those of the store state the item
\* query read: the count query and the item query saw the same table.
C27_ListSnapshotConsistent ==
    (last # NotRun /\ last.op = "list" /\ ~last.served /\ ~last.out.raised) =>
        /\ last.snap1 = last.snap2
        /\ last.out.val.total = CountQuery(last.snap2, Where(last.arg))
        /\ last.out.val.pages =
               (CountQuery(last.snap2, Where(last.arg)) + last.arg.limit - 1)
                   \div last.arg.limit
        /\ last.wrote # NotRun =>
               last.wrote.payload.json.v.total =
                   PyInt(CountQuery(last.snap2, Where(last.arg)))

\* Requests over a cache that holds entries this service did not write.
InitForeign == Started(MaxForeignRequests)

NextForeign ==
    \/ \E k \in ForeignKeys, p \in ForeignPayloads : ForeignWrite(k, p)
    \/ \E r \in Procs, c \in Calls : Begin(r, c, FALSE)
    \/ Steps({FALSE})

SpecForeign == InitForeign /\ [][NextForeign]_vars

\* C3: a request that finds under its key an entry that is no JSON, or JSON
\* that is not its shape's result, goes to the backing store like a miss and
\* returns the computed result, never an error.
C3_UndecodableIsMiss ==
    (last # NotRun /\ last.entry # NotRun /\ last.entry.meta.by = "foreign") =>
        /\ ~last.out.raised
        /\ last.nq >= 1
        /\ last.out.val \in FromStore(last)

----------------------------------------------------------------------------
(* Queries run on their own over a table: get_products and get_stats on   *)
(* the miss path, with nothing cached                                     *)

QueryIds == {1, 2, 3}

\* The tables of the model: each seeded product present or not.
Catalogs ==
    {[i \in QueryIds |-> IF i \in S THEN Seed(i) ELSE Absent] :
        S \in SUBSET QueryIds}

QueryArgSpace ==
    [page : 1..MaxPage, limit : 1..MaxLimit,
     sort_by : {"id", "price"},
     sort_order : {"asc", "desc"},
     category : {PyNone, PyStr(""), PyStr("Home")},
     brand : {PyNone, PyStr(""), PyStr("Zenith")},
     min_price : {PyNone, PyFloat(0), PyFloat(10)},
     max_price : {PyNone, PyFloat(0), PyFloat(10)},
     search : {PyNone, PyStr("Tech"), PyStr("t_ch"), PyStr("%")}]

InitQuery ==
    /\ redis = "none"
    /\ cache = <<>>
    /\ now = 0
    /\ store \in Catalogs
    /\ req = [r \in Procs |-> IdleFrame]
    /\ last = NotRun
    /\ budget = 0
    /\ writes = 0
    /\ ticks = 0
    /\ expired = {}
    /\ KeyIdle /\ CsIdle
    /\ la \in QueryArgSpace
    /\ lb = la
    /\ lout = NotRun
    /\ lres = NotRun

\* get_products with no cache: the count query, the sort column, the item
\* query and the response.
get_products_run ==
    /\ lres = NotRun
    /\ IF SortColumn(la.sort_by).raised
       THEN lres' = [op |-> "list", items |-> <<>>,
                     out |-> Raise("AttributeError")]
       ELSE \E items \in ItemResults(store, ItemQuery(la)) :
                lres' = [op |-> "list", items |-> items,
                         out |-> Ok(ListResponse(
                                       la, CountQuery(store, Where(la)),
                                       items))]
    /\ UNCHANGED <<la, lb, lout>>
    /\ UNCHANGED <<sysvars, keyvars, csvars>>

\* get_stats with no cache.
get_stats_run ==
    /\ lres = NotRun
    /\ lres' = [op |-> "stats", items |-> <<>>, out |-> Ok(StatsOf(store))]
    /\ UNCHANGED <<la, lb, lout>>
    /\ UNCHANGED <<sysvars, keyvars, csvars>>

\* get_categories with no cache.
get_categories_run ==
    /\ lres = NotRun
    /\ lres' = [op |-> "categories", items |-> <<>>,
                out |-> Ok(CategoriesOf(store))]
    /\ UNCHANGED <<la, lb, lout>>
    /\ UNCHANGED <<sysvars, keyvars, csvars>>

\* get_brands with no cache.
get_brands_run ==
    /\ lres = NotRun
    /\ lres' = [op |-> "brands", items |-> <<>>, out |-> Ok(BrandsOf(store))]
    /\ UNCHANGED <<la, lb, lout>>
    /\ UNCHANGED <<sysvars, keyvars, csvars>>

NextQuery ==
    \/ get_products_run
    \/ get_stats_run
    \/ get_categories_run
    \/ get_brands_run

SpecQuery == InitQuery /\ [][NextQuery]_vars

\* A list query has run and returned.
ListRan == lres # NotRun /\ lres.op = "list" /\ ~lres.out.raised

\* The least n with n * limit >= total.
CeilDiv(total, limit) ==
    CHOOSE n \in 0..total : n * limit >= total /\ \A m \in 0..(n - 1) : m * limit < total

\* C14: the pages field of the list response is ceil(total / limit), 0 when
\* total is 0, and 5 for total 237 and limit 50.
C14_TotalPages ==
    /\ ListRan =>
           /\ lres.out.val.pages = CeilDiv(lres.out.val.total, la.limit)
           /\ lres.out.val.total = 0 => lres.out.val.pages = 0
    /\ ListResponse([DefaultArgs EXCEPT !.limit = 50], 237, <<>>).pages = 5

C14_Witness ==
    /\ ListRan
    /\ lres.out.val.total = 3
    /\ la.limit = 2
    /\ lres.out.val.pages = 2

\* The rows the filter of the call selects, and the position of a sort
\* value in the requested order.
Filtered == {r \in RowsOf(store) : Matches(r, Where(la))}

Before(x, y) ==
    IF Lower(la.sort_order) = "desc"
    THEN SortKey(x, SortColumn(la.sort_by).col) > SortKey(y, SortColumn(la.sort_by).col)
    ELSE SortKey(x, SortColumn(la.sort_by).col) < SortKey(y, SortColumn(la.sort_by).col)

Max2(a, b) == IF a > b THEN a ELSE b

\* C15: get_products returns the rows at positions offset+1 .. offset+limit
\* of the filtered set in the requested order, offset = (page - 1) * limit:
\* min(limit, max(0, total - offset)) items, the remainder on the last page,
\* an empty sequence and no error past it.
C15_PaginationWindow ==
    (lres # NotRun /\ lres.op = "list") =>
        LET items == lres.items
            offset == (la.page - 1) * la.limit
            total == Cardinality(Filtered)
        IN /\ ~lres.out.raised
           /\ Len(items) = Min2(la.limit, Max2(0, total - offset))
           /\ lres.out.val.data = [i \in 1..Len(items) |-> ProductOf(items[i])]
           /\ \A i \in 1..Len(items) :
                  /\ items[i] \in Filtered
                  /\ \A j \in 1..Len(items) : i # j => items[i] # items[j]
                  /\ \A j \in 1..Len(items) : i < j => ~Before(items[j], items[i])
                  /\ Cardinality({r \in Filtered : Before(r, items[i])})
                         <= offset + i - 1
                  /\ Cardinality({r \in Filtered : ~Before(items[i], r)})
                         >= offset + i

C15_Witness ==
    /\ ListRan
    /\ Cardinality(Filtered) = 3
    /\ la.limit = 2 /\ la.page = 2
    /\ Len(lres.items) = 1

\* The rows that satisfy the predicates of the call other than those on the
\* named fields.
OtherPredicates(fields) ==
    {r \in RowsOf(store) :
        Matches(r, [f \in DOMAIN Where(la) |->
                       IF f \in fields THEN NoPred ELSE Where(la)[f]])}

\* C16: a category (a brand) that is present in the call, the empty string
\* included, is applied: every returned item has exactly that category
\* (brand) and total counts only such items, together with the other
\* predicates.
C16_PresentPredicateApplied ==
    ListRan =>
        /\ la.category # PyNone =>
               /\ \A i \in 1..Len(lres.items) :
                      lres.items[i].category = la.category.s
               /\ lres.out.val.total =
                      Cardinality({r \in OtherPredicates({"category"}) :
                                      r.category = la.category.s})
        /\ la.brand # PyNone =>
               /\ \A i \in 1..Len(lres.items) : lres.items[i].brand = la.brand.s
               /\ lres.out.val.total =
                      Cardinality({r \in OtherPredicates({"brand"}) :
                                      r.brand = la.brand.s})

\* Whether a price, in cents, lies within the bounds present in the call.
InPriceRange(price) ==
    /\ la.min_price # PyNone => la.min_price.n * 100 <= price
    /\ la.max_price # PyNone => price <= la.max_price.n * 100

\* C17: the price bounds that are present, 0 included, are both inclusive:
\* the items returned and counted are exactly those with
\* min_price <= price <= max_price among the items matching the other
\* predicates.
C17_PriceRangeInclusive ==
    ListRan =>
        /\ \A i \in 1..Len(lres.items) : InPriceRange(lres.items[i].price)
        /\ lres.out.val.total =
               Cardinality({r \in OtherPredicates({"min_price", "max_price"}) :
                               InPriceRange(r.price)})
        /\ \A i \in 1..Len(lres.items) :
               lres.items[i] \in OtherPredicates({"min_price", "max_price"})

C17_Witness ==
    /\ ListRan
    /\ la.min_price = PyFloat(10) /\ la.max_price = PyFloat(10)
    /\ Cardinality(RowsOf(store)) = 3
    /\ Len(lres.items) = 2
    /\ \A i \in 1..Len(lres.items) : lres.items[i].price = 1000

\* Whether term occurs in text as a literal substring, ignoring case.
Occurs(text, term) ==
    LET t == LowerChars(text)
        p == LowerChars(term)
    IN \E i \in 1..(Len(t) - Len(p) + 1) : SubSeq(t, i, i + Len(p) - 1) = p

\* C18: the items a search term selects are exactly those in which the term
\* occurs, ignoring case, as a literal substring of the name, the
\* description or the SKU.
C18_LiteralSubstringSearch ==
    (ListRan /\ la.search # PyNone) =>
        lres.out.val.total =
            Cardinality({r \in OtherPredicates({"search"}) :
                \/ Occurs(r.name, la.search.s)
                \/ r.description # PyNone /\ Occurs(r.description.s, la.search.s)
                \/ Occurs(r.sku, la.search.s)})

\* A stats query has run.
StatsRan == lres # NotRun /\ lres.op = "stats"

\* C19: get_stats returns without an error, every field of the record is a
\* number, and on an empty catalog every field is 0.
C19_StatsNeverNull ==
    StatsRan =>
        /\ ~lres.out.raised
        /\ \A f \in DOMAIN lres.out.val : lres.out.val[f] \in Nat
        /\ RowsOf(store) = {} =>
               lres.out.val =
                   [total_products |-> 0, total_categories |-> 0,
                    total_brands |-> 0, price_min |-> 0, price_max |-> 0,
                    avg_rating |-> 0, total_stock |-> 0]

C19_Witness == StatsRan /\ RowsOf(store) = {} /\ lres.out.val.price_min = 0

\* A distinct listing has run: the strings it returned and its total.
ListingRan == lres # NotRun /\ lres.op \in {"categories", "brands"}

ListingValues ==
    IF lres.op = "categories" THEN lres.out.val.categories
    ELSE [i \in 1..Len(lres.out.val.v.brands.v) |->
              lres.out.val.v.brands.v[i].s]

ListingTotal ==
    IF lres.op = "categories" THEN lres.out.val.total
    ELSE lres.out.val.v.total.n

\* C21: get_categories and get_brands return the categories (brands) present
\* in the store, each once, in ascending order, with a total equal to the
\* length of the list.
C21_DistinctListings ==
    ListingRan =>
        /\ ~lres.out.raised
        /\ {ListingValues[i] : i \in 1..Len(ListingValues)} =
               {IF lres.op = "categories" THEN r.category ELSE r.brand :
                    r \in RowsOf(store)}
        /\ \A i, j \in 1..Len(ListingValues) :
               i # j => ListingValues[i] # ListingValues[j]
        /\ \A i, j \in 1..Len(ListingValues) :
               i < j => StrLess(ListingValues[i], ListingValues[j])
        /\ ListingTotal = Len(ListingValues)

C21_Witness ==
    /\ ListingRan
    /\ Cardinality(RowsOf(store)) = 3
    /\ ListingValues = <<"Acme", "Zenith">>
    /\ ListingTotal = 2

----------------------------------------------------------------------------
(* Requests over a store whose queries may fail, and the HTTP boundary *)

StoreExceptSwallowed(e) == Ok(PyNone)

\* `await self.db.execute(...)` stands in no try/except: what it raises
\* leaves the operation.
StoreExcept(e) == Raise(e)

\* A store query of the request fails: the count query or the item query of
\* get_products, or the query of one of the other operations.
StoreFail(r) ==
    LET f == req[r] IN
    /\ f.pc \in {"count", "items", "query"}
    /\ Finish(r, [f EXCEPT !.nq = f.nq + 1, !.storeFail = TRUE,
                           !.trace = Append(f.trace, Event("query", "", FALSE)),
                           !.out = StoreExcept("OperationalError"),
                           !.retAt = now])
    /\ UNCHANGED <<redis, cache, now, store, budget, writes, ticks, expired>>
    /\ UNCHANGED <<keyvars, listvars, csvars>>

HttpStatusNoNotFound(op, out) == IF out.raised THEN 500 ELSE 200

\* The status the boundary answers with: global_exception_handler turns an
\* exception into 500, the detail endpoint raises HTTPException(404) on
\* `if not product`.
HttpStatus(op, out) ==
    IF out.raised THEN 500
    ELSE IF op = "detail" /\ out.val = PyNone THEN 404
    ELSE 200

InitStore == Started(MaxStoreRequests)

NextStore ==
    \/ \E r \in Procs, c \in Calls : Begin(r, c, FALSE)
    \/ Steps({FALSE})
    \/ \E r \in Procs : StoreFail(r)

SpecStore == InitStore /\ [][NextStore]_vars

\* C12: an operation one of whose store queries failed reports the failure
\* (an exception, 500 at the boundary), returns no result and has written
\* nothing to the cache; the failing step leaves the cache as it was.
C12_StoreFailureNoSideEffect ==
    /\ [](last # NotRun /\ last.storeFail =>
              /\ last.out.raised
              /\ HttpStatus(last.op, last.out) = 500
              /\ last.wrote = NotRun)
    /\ [][(\E r \in Procs : StoreFail(r)) => cache' = cache]_vars

C12_Witness ==
    /\ last # NotRun
    /\ last.storeFail
    /\ last.op = "list"
    /\ last.nq = 2
    /\ DOMAIN cache # {}

\* C13: get_product for an id without a row returns None and raises
\* nothing, the detail endpoint answers 404, and a failure answers 500.
C13_DetailNotFound ==
    last # NotRun =>
        /\ (last.op = "detail" /\ ~last.storeFail /\ last.nq = 1
                /\ last.snap1[last.arg.id] = Absent)
               => /\ last.out = Ok(PyNone)
                  /\ HttpStatus(last.op, last.out) = 404
        /\ last.out.raised => HttpStatus(last.op, last.out) = 500

C13_Witness ==
    /\ last # NotRun
    /\ last.op = "detail"
    /\ last.arg.id = 2
    /\ last.out = Ok(PyNone)
    /\ HttpStatus(last.op, last.out) = 404

\* The positions of the events of one kind in a trace, and the number of
\* store queries each operation makes.
Events(t, e) == {i \in 1..Len(t) : t[i].e = e}

StoreQueries(op) == IF op = "list" THEN 2 ELSE 1

\* The order of the awaited calls of a request, in flight or returned: the
\* cache get comes first; there is at most one cache set, under the key of
\* the get, after all the store queries of the operation, each of which
\* succeeded, and nothing follows it.
StepOrder(f) ==
    LET t == f.trace IN
    /\ Events(t, "get") = {1}
    /\ Cardinality(Events(t, "set")) <= 1
    /\ \A i \in Events(t, "set") :
           /\ t[i].key = t[1].key
           /\ i = Len(t)
           /\ Cardinality(Events(t, "query")) = StoreQueries(f.op)
           /\ \A j \in Events(t, "query") : j < i /\ t[j].ok

\* A request that returned a result on a miss.
MissResult(f) == f # NotRun /\ ~f.served /\ ~f.out.raised

\* C24 as stated: the get precedes every store query, the set comes at most
\* once, under the key of the get, after all store queries have succeeded,
\* and a result is returned on a miss only after the set attempt.
C24_StepOrder ==
    /\ \A r \in Procs : req[r].pc # "idle" => StepOrder(req[r])
    /\ last # NotRun => StepOrder(last)
    /\ MissResult(last) => last.trace[Len(last.trace)].e = "set"

\* C24, amended: the same order, and a result is returned on a miss only
\* after the set attempt, except that get_product returns None straight
\* after its store query, with no set attempt, when no row has the id.
C24_StepOrderUnlessNotFound ==
    /\ \A r \in Procs : req[r].pc # "idle" => StepOrder(req[r])
    /\ last # NotRun => StepOrder(last)
    /\ MissResult(last) =>
           IF last.op = "detail" /\ last.snap1[last.arg.id] = Absent
           THEN /\ last.out = Ok(PyNone)
                /\ Events(last.trace, "set") = {}
                /\ Len(last.trace) = 2 /\ last.trace[2].e = "query"
           ELSE /\ last.trace[Len(last.trace)].e = "set"
                /\ last.out = Ok(last.resp)

C24_Witness ==
    /\ MissResult(last)
    /\ last.op = "list"
    /\ Len(last.trace) = 4
    /\ last.trace[4] = Event("set", ListKey(PricedDesc), TRUE)
    /\ \E r \in Procs : req[r].pc = "set" /\ req[r].op = "detail"

----------------------------------------------------------------------------
(* Concurrent requests for the same uncached list query, the store         *)
(* unchanged                                                               *)

\* One product per page, by id: the order is total.
ById == [DefaultArgs EXCEPT !.limit = 1]

\* PricedDesc orders products 1 and 3, of the same price, either way.
StampedeCalls == {[op |-> "list", arg |-> a] : a \in {ById, PricedDesc}}

InitStampede ==
    /\ redis = "client"
    /\ cache = <<>>
    /\ now = 0
    /\ store = [i \in QueryIds |-> IF i = 2 THEN Absent ELSE Seed(i)]
    /\ req = [r \in Procs |-> IdleFrame]
    /\ last = NotRun
    /\ budget = MaxStampedeRequests
    /\ writes = 0
    /\ ticks = 0
    /\ expired = {}
    /\ KeyIdle /\ ListIdle /\ CsIdle

NextStampede ==
    \/ \E r \in Procs, c \in StampedeCalls : Begin(r, c, FALSE)
    \/ \E r \in Procs : CountStep(r)
    \/ \E r \in Procs : ItemsStep(r)
    \/ \E r \in Procs : SetStep(r, FALSE)

SpecStampede == InitStampede /\ [][NextStampede]_vars

\* The results a single sequential get_products(arg) may compute from the
\* store.
Sequential(arg) ==
    {ListResponse(arg, CountQuery(store, Where(arg)), items) :
        items \in ItemResults(store, ItemQuery(arg))}

\* C11 as stated: the requests for one list query all return the same
\* result, that of the first computation cached under the key, and that is
\* the value left in the cache.
C11_AllSameResult ==
    (last # NotRun /\ last.key \in DOMAIN cache) =>
        /\ last.out = Ok(cache[last.key].meta.first)
        /\ cache[last.key].payload = JsonText(DumpList(last.out.val))

\* C11, amended: every request succeeds with a result a single sequential
\* computation may return; the value left under the key is the dump of the
\* result of the request that set it last; and when no two selected rows
\* tie on the sort column every request returns the one sequential result.
C11_StampedeConverges ==
    /\ last # NotRun =>
           /\ ~last.out.raised
           /\ last.out.val \in Sequential(last.arg)
           /\ last.wrote # NotRun =>
                  /\ cache[last.key] = last.wrote
                  /\ last.wrote.payload = JsonText(DumpList(last.out.val))
           /\ Cardinality(Sequential(last.arg)) = 1 =>
                  /\ last.key \in DOMAIN cache
                  /\ last.out = Ok(cache[last.key].meta.first)
    /\ \A k \in DOMAIN cache :
           /\ HitResult("list", cache[k].payload.json) = Ok(cache[k].meta.src)
           /\ \E c \in StampedeCalls :
                  KeyOf("list", c.arg) = k /\ cache[k].meta.src \in Sequential(c.arg)

C11_Witness ==
    /\ last # NotRun
    /\ last.entry = NotRun
    /\ last.wrote # NotRun
    /\ last.wrote.meta.first # last.wrote.meta.src
    /\ \A r \in Procs : req[r].pc = "idle"

\* The requests in flight whose get missed under the key.
Missed(key) ==
    {r \in Procs :
        req[r].pc # "idle" /\ req[r].key = key /\ req[r].entry = NotRun}

\* C25: of the concurrent requests that missed under one key, each one
\* issues its own store queries and sets the key itself, with its own
\* result, also when another request has set the key in the meantime; and
\* the next step of each is enabled whatever the others are doing.
C25_NoSingleFlight ==
    /\ (last # NotRun /\ last.entry = NotRun) =>
           /\ last.nq = StoreQueries(last.op)
           /\ Events(last.trace, "query") = {2, 3}
           /\ last.trace[Len(last.trace)] = Event("set", last.key, TRUE)
           /\ last.wrote # NotRun
           /\ last.wrote.meta.src = last.resp
           /\ last.out = Ok(last.resp)
    /\ \A r \in Procs :
           /\ req[r].pc = "count" => ENABLED CountStep(r)
           /\ req[r].pc = "items" => ENABLED ItemsStep(r)
           /\ req[r].pc = "set" => ENABLED SetStep(r, FALSE)

C25_Witness ==
    /\ last # NotRun /\ last.entry = NotRun
    /\ last.key \in DOMAIN cache
    /\ \E r \in Missed(last.key) :
           /\ req[r].pc = "set"
           /\ cache[last.key].meta.src # req[r].resp

----------------------------------------------------------------------------
(* The five operations over a working cache while time passes *)

InitExpiry == Started(MaxExpiryRequests)

NextExpiry ==
    \/ \E r \in Procs, c \in Calls : Begin(r, c, FALSE)
    \/ Steps({FALSE})
    \/ Tick(CACHE_TTL_DETAIL)

SpecExpiry == InitExpiry /\ [][NextExpiry]_vars

\* C26: no step of a query operation deletes an entry or clears a pattern:
\* the awaited cache calls of a request are one get and at most one set, and
\* in every step an entry of the cache stays as it is, or is replaced by the
\* set of a request under that very key, or is gone because its TTL has
\* elapsed.
C26_TtlOnlyExpiry ==
    /\ [](\A r \in Procs : \A i \in 1..Len(req[r].trace) :
              req[r].trace[i].e \in {"get", "query", "set"})
    /\ [][\A k \in DOMAIN cache :
              \/ k \in DOMAIN cache' /\ cache'[k] = cache[k]
              \/ /\ k \in DOMAIN cache'
                 /\ last' # NotRun
                 /\ last'.key = k
                 /\ last'.trace[Len(last'.trace)] = Event("set", k, TRUE)
                 /\ cache'[k] = last'.wrote
              \/ k \notin DOMAIN cache' /\ cache[k].exp <= now']_vars

C26_Witness ==
    /\ ticks > 0
    /\ last # NotRun /\ last.op = "stats" /\ last.afterExpiry
    /\ last.wrote # NotRun
    /\ cache[last.key] = last.wrote

----------------------------------------------------------------------------
(* get_product while products are inserted and deleted *)

NextNotFound ==
    \/ \E r \in Procs, i \in Ids :
           Begin(r, [op |-> "detail", arg |-> [id |-> i]], FALSE)
    \/ \E r \in Procs : QueryStep(r)
    \/ \E r \in Procs : SetStep(r, FALSE)
    \/ \E i \in Ids : \E v \in {Absent, Seed(i)} : StoreWrite(i, v)

SpecNotFound == Started(MaxNotFoundRequests) /\ [][NextNotFound]_vars

\* A get_product(id) starts in this step, and it goes on to the store.
StartedDetail(id) ==
    /\ budget' < budget
    /\ IF req' = req THEN last'.arg.id = id
       ELSE \E r \in Procs : req'[r] # req[r] /\ req'[r].arg.id = id

GoesToStore == \E r \in Procs : req'[r] # req[r] /\ req'[r].pc = "query"

\* get_product returns None in this step.
NotFoundStep ==
    /\ \E r \in Procs : req[r].pc = "query" /\ req'[r].pc = "idle"
    /\ last'.out = Ok(PyNone)

\* What holds of not-found results whatever was cached before: None is
\* returned after one store query that saw no row, with no cache set, the
\* step leaves the cache as it was, no entry holds a not-found result, and a
\* lookup that reaches the store returns the row the store holds then.
NotFoundNotCached ==
    /\ []((last # NotRun /\ last.out = Ok(PyNone)) =>
              /\ last.nq = 1
              /\ last.snap1[last.arg.id] = Absent
              /\ last.wrote = NotRun
              /\ Events(last.trace, "set") = {})
    /\ []((last # NotRun /\ ~last.served) =>
              last.out.val = IF last.snap1[last.arg.id] = Absent THEN PyNone
                             ELSE DetailOf(last.snap1[last.arg.id]))
    /\ [](\A k \in DOMAIN cache :
              /\ cache[k].meta.src # PyNone
              /\ HitResult("detail", cache[k].payload.json)
                     = Ok(cache[k].meta.src))
    /\ [][NotFoundStep => cache' = cache]_vars

\* C28 as stated: a get_product that finds no row leaves the cache
\* unchanged, every lookup of an id that has no row issues a store query,
\* and an id inserted later is found by the next lookup.
C28_MissingIdAlwaysQueried ==
    /\ NotFoundNotCached
    /\ [][\A id \in Ids :
              (StartedDetail(id) /\ store[id] = Absent) => GoesToStore]_vars

\* C28, amended: a get_product that finds no row leaves the cache unchanged,
\* every lookup of an id that has no row and no live entry (cached while
\* the row existed) issues a store query, and an id inserted later is found
\* by the next lookup that reaches the store.
C28_MissingIdQueriedUnlessCached ==
    /\ NotFoundNotCached
    /\ [][\A id \in Ids :
              (StartedDetail(id) /\ DetailKey(id) \notin DOMAIN cache)
                  => GoesToStore]_vars

C28_Witness ==
    /\ last # NotRun
    /\ last.arg.id = 2
    /\ last.out = Ok(DetailOf(Seed(2)))
    /\ ~last.served
    /\ budget = 0
    /\ writes = 1
    /\ DOMAIN cache = {DetailKey(2)}

----------------------------------------------------------------------------
(* The five operations side by side over one cache, two products stored *)

InitShapes ==
    /\ redis = "client"
    /\ cache = <<>>
    /\ now = 0
    /\ store = [i \in Ids |-> Seed(i)]
    /\ req = [r \in Procs |-> IdleFrame]
    /\ last = NotRun
    /\ budget = MaxShapeRequests
    /\ writes = 0
    /\ ticks = 0
    /\ expired = {}
    /\ KeyIdle /\ ListIdle /\ CsIdle

NextShapes ==
    \/ \E r \in Procs, c \in Calls : Begin(r, c, FALSE)
    \/ Steps({FALSE})

SpecShapes == InitShapes /\ [][NextShapes]_vars

\* The keys of the list queries and of the product ids of the model, and
\* the keys of the three operations without arguments.
ListKeys(space) == {ListKey(a) : a \in space}

DetailIds == (0 - 1)..12

DetailKeys(ids) == {DetailKey(i) : i \in ids}

FixedKeys == <<"products:stats", "products:categories", "products:brands">>

\* The keys of the five operations are pairwise different over the list
\* arguments and the ids given.
KeysDisjoint(space, ids) ==
    /\ ListKeys(space) \cap DetailKeys(ids) = {}
    /\ \A i \in 1..3 :
           /\ FixedKeys[i] \notin ListKeys(space) \cup DetailKeys(ids)
           /\ \A j \in 1..3 : i # j => FixedKeys[i] # FixedKeys[j]
    /\ \A i, j \in ids : i # j => DetailKey(i) # DetailKey(j)

\* The entry was written by the operation of the frame, for detail for the
\* id of the frame.
SameShape(f, entry) ==
    /\ entry.meta.by = f.op
    /\ f.op = "detail" => entry.meta.src.id = f.arg.id
    /\ f.op = "list" =>
           entry.meta.src.page = f.arg.page /\ entry.meta.src.limit = f.arg.limit

\* C29: the keys of the five operations are pairwise different for all
\* arguments and the detail keys of different ids differ (a statement about
\* no state, evaluated before the first request starts); every entry a
\* request reads or replaces was written by the same operation, for detail
\* for the same id.
C29_KeySpacesDisjoint ==
    /\ budget = MaxShapeRequests =>
           KeysDisjoint(ListArgSpace \cup QueryArgSpace, DetailIds)
    /\ \A c, d \in Calls :
           KeyOf(c.op, c.arg) = KeyOf(d.op, d.arg) => c = d
    /\ (last # NotRun /\ last.entry # NotRun) => SameShape(last, last.entry)
    /\ (last # NotRun /\ last.wrote # NotRun) => SameShape(last, last.wrote)
    /\ \A r \in Procs :
           (req[r].pc # "idle" /\ req[r].key \in DOMAIN cache) =>
               SameShape(req[r], cache[req[r].key])

C29_Witness ==
    /\ last # NotRun
    /\ last.served
    /\ last.op = "detail" /\ last.arg.id = 2
    /\ {DetailKey(1), DetailKey(2)} \subseteq DOMAIN cache

----------------------------------------------------------------------------
(* Requests over a cache tier that accepts a command and never answers *)

\* A request starts and its `await self.redis.get(key)` is never answered:
\* connect() sets no socket timeout and get() awaits without a bound, so
\* the coroutine stays suspended.
BeginHang(r, call) ==
    LET key == KeyOf(call.op, call.arg) IN
    /\ req[r].pc = "idle"
    /\ \A q \in Procs : q < r => req[q].pc # "idle"
    /\ budget > 0
    /\ budget' = budget - 1
    /\ Continue(r, [IdleFrame EXCEPT
                       !.pc = "get_wait", !.op = call.op, !.arg = call.arg,
                       !.trace = <<Event("get", key, FALSE)>>,
                       !.key = key, !.entry = EntryAt(cache, now, key)])
    /\ UNCHANGED <<redis, cache, now, store, writes, ticks, expired>>
    /\ UNCHANGED <<keyvars, listvars, csvars>>

\* The `await self.redis.setex(...)` of the request is never answered.
SetHang(r) ==
    /\ req[r].pc = "set"
    /\ Continue(r, [req[r] EXCEPT
                       !.pc = "set_wait",
                       !.trace = Append(req[r].trace,
                                        Event("set", req[r].key, FALSE))])
    /\ UNCHANGED <<redis, cache, now, store, budget, writes, ticks, expired>>
    /\ UNCHANGED <<keyvars, listvars, csvars>>

InitHang == Started(MaxHangRequests)

NextHang ==
    \/ \E r \in Procs, c \in TimedCalls : Begin(r, c, FALSE)
    \/ \E r \in Procs, c \in TimedCalls : BeginHang(r, c)
    \/ Steps({FALSE})
    \/ \E r \in Procs : SetHang(r)

\* The event loop resumes every coroutine whose awaited call has answered.
SpecHang ==
    InitHang /\ [][NextHang]_vars
        /\ \A r \in Procs :
               /\ WF_vars(CountStep(r))
               /\ WF_vars(ItemsStep(r))
               /\ WF_vars(QueryStep(r))
               /\ WF_vars(SetStep(r, FALSE) \/ SetHang(r))

\* C20: every request that has started completes, also when the cache tier
\* never answers its get or its set.
C20_CacheTimeoutFailOpen ==
    \A r \in Procs : (req[r].pc # "idle") ~> (req[r].pc = "idle")

====
